---- MODULE Spec2Model ----
(***************************************************************************)
(* Model of scripts/qa-smoke-test.py: the HTTP helpers, the auth flow, the *)
(* port publisher, the feature loader, the browser-agent invoker and the   *)
(* orchestrator main().  Python dicts are records; a missing key is a      *)
(* field outside the record's DOMAIN; None is the record NoneVal.          *)
(***************************************************************************)
EXTENDS Integers, Sequences, FiniteSets, TLC

VARIABLES
    pc,                 \* position of main() / run_auth_test()
    now,                \* wall clock, whole seconds (time.time())
    attempt,            \* number of probe GETs issued so far
    browser_reachable,  \* main: browser_reachable
    skip_browser,       \* main: skip_browser
    sleeps,             \* delays passed to time.sleep, in order
    result,             \* run_auth_test: result (NoneVal before the call)
    token,              \* run_auth_test: token ("" before extraction)
    ports,              \* main: ports (NoneVal before make_ports_public)
    features,           \* main: features
    agent_request,      \* JSON body POSTed to /smoke-test (NoneVal if none)
    output,             \* main: output
    exit_code,          \* main: exit_code
    returned,           \* value returned by main() (-1 while running)
    last_http,          \* last http_get/http_post call: wire outcome and result
    calls,              \* external effects of the run, in order
    files,              \* the two artifacts on disk
    stdout,             \* what was printed to stdout, in order
    users,              \* rows of the backend's users table, in insertion order
    frontend_dir,       \* result of os.path.isdir("frontend") ("unset" before)
    codespace_env,      \* CODESPACE_NAME as make_ports_public read it ("(unread)" before)
    prev,               \* summary of the previous run of the script
    features_file,      \* features.json handed to read_features (NoFile: read from disk)
    harness             \* test-browser-agent.py: locals of main() and wake_fixture()

vars == <<pc, now, attempt, browser_reachable, skip_browser, sleeps, result,
          token, ports, features, agent_request, output, exit_code, returned,
          last_http, calls, files, stdout, users, frontend_dir,
          codespace_env, prev, features_file, harness>>

----------------------------------------------------------------------------
(* Bounds of the model.                                                    *)

MaxClock == 2       \* clock values are 1..MaxClock
MaxFeatures == 2    \* features.json holds at most this many items

(* Program constants.                                                      *)

WAKE_RETRIES == 4
FRONTEND_PORT == 3000
WAKE_DELAYS == <<10, 15, 15, 15>>

NoneVal == [none |-> TRUE]
EmptyDict == [x \in {} |-> TRUE]

Get(d, k, default) == IF k \in DOMAIN d THEN d[k] ELSE default

\* d[k] = v  (python: d[k] = v on a dict)
Put(d, k, v) == [x \in DOMAIN d \cup {k} |-> IF x = k THEN v ELSE d[x]]

----------------------------------------------------------------------------
(* What the network did with one request: a transport failure (DNS,       *)
(* connection refused, timeout) or an HTTP response with a status code     *)
(* and a body that is a JSON object or does not decode.                    *)

Transport == [kind |-> "transport", code |-> 0, decodable |-> FALSE, body |-> EmptyDict]

Response(code, decodable, body) ==
    [kind |-> "response", code |-> code, decodable |-> decodable, body |-> body]

Is2xx(status) == status >= 200 /\ status < 300

\* http_post: urlopen raises HTTPError for a non-2xx status and URLError for a
\* transport failure; json.loads on a 2xx body that does not decode raises
\* ValueError, which the last clause (except Exception) turns into status 0.
http_post(wire) ==
    IF wire.kind = "transport"
    THEN [status |-> 0, body |-> [error |-> "unreachable"]]
    ELSE IF Is2xx(wire.code)
         THEN IF wire.decodable
              THEN [status |-> wire.code, body |-> wire.body]
              ELSE [status |-> 0, body |-> [error |-> "Expecting value"]]
         ELSE IF wire.decodable
              THEN [status |-> wire.code, body |-> wire.body]
              ELSE [status |-> wire.code, body |-> [raw |-> "reason"]]

http_get(wire) ==
    IF wire.kind = "transport"
    THEN [status |-> 0, body |-> [error |-> "unreachable"]]
    ELSE IF Is2xx(wire.code)
         THEN IF wire.decodable
              THEN [status |-> wire.code, body |-> wire.body]
              ELSE [status |-> 0, body |-> [error |-> "Expecting value"]]
         ELSE IF wire.decodable
              THEN [status |-> wire.code, body |-> wire.body]
              ELSE [status |-> wire.code, body |-> [raw |-> "reason"]]

HttpCall(fn, url, wire, r) == [fn |-> fn, url |-> url, wire |-> wire, status |-> r.status]

NoCall == [fn |-> "none", url |-> "", wire |-> Transport, status |-> 0]

----------------------------------------------------------------------------
(* main(): lines 278-283.                                                  *)

Timestamp(t) == [format |-> "%Y-%m-%dT%H:%M:%SZ", gmtime |-> t]

NewOutput(t) == [timestamp |-> Timestamp(t), auth |-> NoneVal, browser_smoke_test |-> NoneVal]

\* features_file when read_features opens whatever is on disk
NoFile == [kind |-> "(disk)"]

\* harness while test-browser-agent.py is not the program running
NoHarness == [elapsed |-> 0, result |-> NoneVal]

\* prev before any run has finished
NoRun == [tuple |-> EmptyDict, exit_code |-> -1]

Init ==
    /\ pc = "probe"
    /\ now = 1
    /\ attempt = 0
    /\ browser_reachable = FALSE
    /\ skip_browser = FALSE
    /\ sleeps = <<>>
    /\ result = NoneVal
    /\ token = ""
    /\ ports = NoneVal
    /\ features = <<>>
    /\ agent_request = NoneVal
    /\ output = NewOutput(1)
    /\ exit_code = 0
    /\ returned = -1
    /\ last_http = NoCall
    /\ calls = <<>>
    /\ files = [credentials |-> NoneVal, results |-> NoneVal]
    /\ stdout = <<>>
    /\ users = <<>>
    /\ frontend_dir = "unset"
    /\ codespace_env = "(unread)"
    /\ prev = NoRun
    /\ features_file = NoFile
    /\ harness = NoHarness

----------------------------------------------------------------------------
(* Step 0: connectivity probe, lines 289-313.                              *)

ProbeWires ==
    {Transport} \cup
    {Response(c, d, [service |-> "browser-agent"]) : c \in {200, 404, 503}, d \in BOOLEAN}

\* ProbeReachable with the bug of counting only a 2xx answer as reachable.
ProbeReachable_Only2xx(status) == Is2xx(status)

\* status > 0, line 295
ProbeReachable(status) == status > 0

\* SleepAfter with the bug of sleeping after the final attempt too.
SleepAfter_EveryFailure(k) == k < WAKE_RETRIES

\* attempt < WAKE_RETRIES - 1, line 300 (attempt is 0-based there; k = attempt index)
SleepAfter(k) == k < WAKE_RETRIES - 1

\* One iteration of the for loop: one GET, then break or (maybe) sleep.
ProbeAttempt ==
    /\ pc = "probe"
    /\ attempt < WAKE_RETRIES
    /\ ~browser_reachable
    /\ \E wire \in ProbeWires :
         LET r == http_get(wire) IN
         /\ last_http' = HttpCall("http_get", "agent/", wire, r)
         /\ attempt' = attempt + 1
         /\ IF ProbeReachable(r.status)
            THEN /\ browser_reachable' = TRUE
                 /\ calls' = Append(calls, "GET agent/")
                 /\ sleeps' = sleeps
            ELSE /\ browser_reachable' = FALSE
                 /\ IF SleepAfter(attempt)
                    THEN /\ sleeps' = Append(sleeps, WAKE_DELAYS[attempt + 1])
                         /\ calls' = calls \o <<"GET agent/", "sleep">>
                    ELSE /\ sleeps' = sleeps
                         /\ calls' = Append(calls, "GET agent/")
    /\ UNCHANGED <<pc, now, skip_browser, result, token, ports, features,
                   agent_request, output, exit_code, returned, files, stdout,
                   users, frontend_dir, codespace_env, prev,
                   features_file, harness>>

ProbeUnreachableResult ==
    [overall |-> "error", reason |-> "Browser agent unreachable after 4 attempts"]

\* Loop exit and lines 305-313.
ProbeDone ==
    /\ pc = "probe"
    /\ browser_reachable \/ attempt = WAKE_RETRIES
    /\ IF ~browser_reachable
       THEN /\ output' = [output EXCEPT !.browser_smoke_test = ProbeUnreachableResult]
            /\ skip_browser' = TRUE
       ELSE /\ output' = output
            /\ skip_browser' = FALSE
    /\ pc' = "register"
    /\ UNCHANGED <<now, attempt, browser_reachable, sleeps, result, token, ports,
                   features, agent_request, exit_code, returned, last_http, calls,
                   files, stdout, users, frontend_dir, codespace_env, prev,
                   features_file, harness>>

----------------------------------------------------------------------------
(* Step 1: run_auth_test, lines 86-153, and main's handling of its result, *)
(* lines 318-331.                                                          *)

\* f"qa-tester-{int(time.time())}@test.example.com", line 88
Email(t) == [local |-> "qa-tester-", stamp |-> t, domain |-> "@test.example.com"]

PASSWORD == "TestPass123!"

NewResult(email) ==
    [success |-> FALSE, email |-> email, password |-> PASSWORD, steps |-> EmptyDict]

\* db.query(User).filter(User.email == body.email).first(), auth.py line 40
Existing(email, registered) == \E i \in 1..Len(registered) : registered[i].email = email

\* The fixture backend's register handler, routers/auth.py lines 38-58:
\* the response it sends ...
FixtureRegister(email, registered) ==
    IF Existing(email, registered)
    THEN Response(409, TRUE, [detail |-> "Email already registered"])
    ELSE Response(200, TRUE, [user |-> email, token |-> "jwt"])

\* FixtureUsersAfter with the bug of inserting before looking the email up.
FixtureUsersAfter_InsertsAnyway(email, registered) ==
    Append(registered, [id |-> Len(registered) + 1, email |-> email])

\* ... and the users table it leaves (db.add, db.commit; id autoincrements).
FixtureUsersAfter(email, registered) ==
    IF Existing(email, registered)
    THEN registered
    ELSE Append(registered, [id |-> Len(registered) + 1, email |-> email])

\* Backends the register request can meet: none listening, the fixture,
\* a gateway answering 500 with an HTML body.
Backends == {"down", "fixture", "broken"}

RegisterWire(srv, email, registered) ==
    CASE srv = "down" -> Transport
      [] srv = "fixture" -> FixtureRegister(email, registered)
      [] srv = "broken" -> Response(500, FALSE, EmptyDict)

TokenFields == <<"token", "access_token", "idToken", "id_token">>

TokenFieldSet == {TokenFields[i] : i \in 1..Len(TokenFields)}

\* Login bodies: every field of TokenFields absent, empty or non-empty; a
\* non-empty value names its field, so the selected field can be read off.
LoginBodies ==
    {[f \in S |-> IF f \in E THEN "" ELSE f] : S \in SUBSET TokenFieldSet, E \in SUBSET TokenFieldSet}

LoginWires ==
    {Transport,
     Response(401, TRUE, [detail |-> "Invalid credentials"]),
     Response(200, FALSE, EmptyDict)} \cup
    {Response(200, TRUE, b) : b \in LoginBodies}

VerifyWires ==
    {Transport,
     Response(200, TRUE, [id |-> 1]),
     Response(401, TRUE, [detail |-> "Invalid token"]),
     Response(503, FALSE, EmptyDict)}

\* python truthiness of body.get(f): absent (None) and "" are falsy
Truthy(body, f) == f \in DOMAIN body /\ body[f] # ""

\* ExtractToken with the bug of consulting access_token before token.
ExtractToken_AccessTokenFirst(body) ==
    IF Truthy(body, "access_token") THEN body["access_token"]
    ELSE IF Truthy(body, "token") THEN body["token"]
    ELSE IF Truthy(body, "idToken") THEN body["idToken"]
    ELSE IF Truthy(body, "id_token") THEN body["id_token"]
    ELSE ""

\* body.get("token") or body.get("access_token") or body.get("idToken")
\* or body.get("id_token"), lines 124-129; "" stands for a falsy result.
ExtractToken(body) ==
    IF Truthy(body, "token") THEN body["token"]
    ELSE IF Truthy(body, "access_token") THEN body["access_token"]
    ELSE IF Truthy(body, "idToken") THEN body["idToken"]
    ELSE IF Truthy(body, "id_token") THEN body["id_token"]
    ELSE ""

\* StepFailed with the bug of leaving out the lower bound.
StepFailed_NoLowerBound(status) == status >= 300

\* status < 200 or status >= 300, lines 105 and 118
StepFailed(status) == status < 200 \/ status >= 300

AuthFailedResult(res) ==
    [overall |-> "error",
     error |-> [msg |-> "Auth failed", cause |-> Get(res, "error", NoneVal),
                tail |-> "no valid credentials for browser test"]]

\* AuthReturned with the bug of leaving a browser stage the probe pre-set.
AuthReturned_KeepsProbeError(res) ==
    /\ result' = res
    /\ token' = ""
    /\ IF ~res.success
       THEN /\ output' = [output EXCEPT !.auth = res,
                                        !.browser_smoke_test =
                                            IF @ = NoneVal THEN AuthFailedResult(res) ELSE @]
            /\ exit_code' = 1
            /\ pc' = "write"
       ELSE /\ output' = [output EXCEPT !.auth = res]
            /\ exit_code' = exit_code
            /\ pc' = "frontend"

\* main, lines 319-331, on the value run_auth_test returned.
AuthReturned(res) ==
    /\ result' = res
    /\ token' = ""
    /\ IF ~res.success
       THEN /\ output' = [output EXCEPT !.auth = res,
                                        !.browser_smoke_test = AuthFailedResult(res)]
            /\ exit_code' = 1
            /\ pc' = "write"
       ELSE /\ output' = [output EXCEPT !.auth = res]
            /\ exit_code' = exit_code
            /\ pc' = "frontend"

\* Register with the bug of saving the credentials as soon as they exist.
Register_SavesCredentialsFirst ==
    /\ pc = "register"
    /\ \E t \in now..MaxClock, srv \in Backends :
         LET email == Email(t)
             wire == RegisterWire(srv, email, users)
             r == http_post(wire)
             res == [NewResult(email) EXCEPT
                       !.steps = Put(@, "register", [status |-> r.status, response |-> r.body])]
         IN
         /\ now' = t
         /\ users' = IF srv = "fixture" THEN FixtureUsersAfter(email, users) ELSE users
         /\ last_http' = HttpCall("http_post", "backend/api/auth/register", wire, r)
         /\ calls' = calls \o <<"write credentials", "POST register">>
         /\ files' = [files EXCEPT !.credentials = [email |-> email, password |-> PASSWORD]]
         /\ IF StepFailed(r.status)
            THEN AuthReturned(Put(res, "error", [msg |-> "Registration failed", status |-> r.status]))
            ELSE /\ result' = res
                 /\ pc' = "login"
                 /\ UNCHANGED <<token, output, exit_code>>
    /\ UNCHANGED <<attempt, browser_reachable, skip_browser, sleeps, ports, features,
                   agent_request, returned, stdout, frontend_dir, codespace_env, prev,
                   features_file, harness>>

\* Lines 88-109: build result, POST /api/auth/register.
Register ==
    /\ pc = "register"
    /\ \E t \in now..MaxClock, srv \in Backends :
         LET email == Email(t)
             wire == RegisterWire(srv, email, users)
             r == http_post(wire)
             res == [NewResult(email) EXCEPT
                       !.steps = Put(@, "register", [status |-> r.status, response |-> r.body])]
         IN
         /\ now' = t
         /\ users' = IF srv = "fixture" THEN FixtureUsersAfter(email, users) ELSE users
         /\ last_http' = HttpCall("http_post", "backend/api/auth/register", wire, r)
         /\ calls' = Append(calls, "POST register")
         /\ IF StepFailed(r.status)
            THEN AuthReturned(Put(res, "error", [msg |-> "Registration failed", status |-> r.status]))
            ELSE /\ result' = res
                 /\ pc' = "login"
                 /\ UNCHANGED <<token, output, exit_code>>
    /\ UNCHANGED <<attempt, browser_reachable, skip_browser, sleeps, ports, features,
                   agent_request, returned, files, stdout, frontend_dir, codespace_env, prev,
                   features_file, harness>>

\* Lines 112-134: POST /api/auth/login, extract the token.
Login ==
    /\ pc = "login"
    /\ \E wire \in LoginWires :
         LET r == http_post(wire)
             res == [result EXCEPT !.steps = Put(@, "login", [status |-> r.status])]
             tok == ExtractToken(r.body)
         IN
         /\ last_http' = HttpCall("http_post", "backend/api/auth/login", wire, r)
         /\ calls' = Append(calls, "POST login")
         /\ IF StepFailed(r.status)
            THEN AuthReturned(Put(res, "error", [msg |-> "Login failed", status |-> r.status]))
            ELSE IF tok = ""
            THEN AuthReturned(Put(res, "error",
                    [msg |-> "Login response has no token field", keys |-> DOMAIN r.body]))
            ELSE /\ result' = res
                 /\ token' = tok
                 /\ pc' = "verify"
                 /\ UNCHANGED <<output, exit_code>>
    /\ UNCHANGED <<now, attempt, browser_reachable, skip_browser, sleeps, ports, features,
                   agent_request, returned, files, stdout, users, frontend_dir, codespace_env, prev,
                   features_file, harness>>

\* Verify with the bug of letting the verify call decide success.
Verify_GatesSuccess ==
    /\ pc = "verify"
    /\ \E wire \in VerifyWires :
         LET r == http_get(wire)
             res0 == [result EXCEPT !.steps = Put(@, "verify_token", [status |-> r.status]),
                                    !.success = Is2xx(r.status)]
             res == Put(res0, "token_verified", Is2xx(r.status))
         IN
         /\ last_http' = HttpCall("http_get", "backend/api/users/me", wire, r)
         /\ calls' = calls \o <<"GET users/me", "write credentials">>
         /\ files' = [files EXCEPT !.credentials = [email |-> res.email, password |-> res.password]]
         /\ AuthReturned(res)
    /\ UNCHANGED <<now, attempt, browser_reachable, skip_browser, sleeps, ports, features,
                   agent_request, returned, stdout, users, frontend_dir, codespace_env, prev,
                   features_file, harness>>

\* Lines 137-153: GET /api/users/me, record success, persist the credentials.
Verify ==
    /\ pc = "verify"
    /\ \E wire \in VerifyWires :
         LET r == http_get(wire)
             res0 == [result EXCEPT !.steps = Put(@, "verify_token", [status |-> r.status]),
                                    !.success = TRUE]
             res == Put(res0, "token_verified", Is2xx(r.status))
         IN
         /\ last_http' = HttpCall("http_get", "backend/api/users/me", wire, r)
         /\ calls' = calls \o <<"GET users/me", "write credentials">>
         /\ files' = [files EXCEPT !.credentials = [email |-> res.email, password |-> res.password]]
         /\ AuthReturned(res)
    /\ UNCHANGED <<now, attempt, browser_reachable, skip_browser, sleeps, ports, features,
                   agent_request, returned, stdout, users, frontend_dir, codespace_env, prev,
                   features_file, harness>>

----------------------------------------------------------------------------
(* Frontend check, lines 334-336.                                          *)

\* FrontendCheck with the bug of reporting an exhausted probe as exit 2.
FrontendCheck_ProbeDecidesExit ==
    /\ pc = "frontend"
    /\ \E isdir \in BOOLEAN :
         /\ calls' = Append(calls, "isdir frontend")
         /\ IF ~isdir
            THEN /\ frontend_dir' = "absent"
                 /\ output' = [output EXCEPT !.browser_smoke_test = [overall |-> "not_applicable"]]
                 /\ exit_code' = IF skip_browser THEN 2 ELSE exit_code
                 /\ pc' = "write"
            ELSE /\ frontend_dir' = "present"
                 /\ output' = output
                 /\ exit_code' = exit_code
                 /\ pc' = "ports"
    /\ UNCHANGED <<now, attempt, browser_reachable, skip_browser, sleeps, result, token,
                   ports, features, agent_request, returned, last_http,
                   files, stdout, users, codespace_env, prev,
                   features_file, harness>>

FrontendCheck ==
    /\ pc = "frontend"
    /\ \E isdir \in BOOLEAN :
         /\ calls' = Append(calls, "isdir frontend")
         /\ IF ~isdir
            THEN /\ frontend_dir' = "absent"
                 /\ output' = [output EXCEPT !.browser_smoke_test = [overall |-> "not_applicable"]]
                 /\ pc' = "write"
            ELSE /\ frontend_dir' = "present"
                 /\ output' = output
                 /\ pc' = "ports"
    /\ UNCHANGED <<now, attempt, browser_reachable, skip_browser, sleeps, result, token,
                   ports, features, agent_request, exit_code, returned, last_http,
                   files, stdout, users, codespace_env, prev,
                   features_file, harness>>

----------------------------------------------------------------------------
(* Step 2: make_ports_public, lines 159-184, and main lines 340-347.       *)

\* os.environ.get("CODESPACE_NAME"): "" stands for unset or empty
Codespaces == {"", "cs-1", "cs-2"}

\* How the gh subprocess ends: exit 0, CalledProcessError, FileNotFoundError,
\* TimeoutExpired.
CliOutcomes == {"ok", "nonzero", "notfound", "timeout"}

\* f"https://{codespace}-{FRONTEND_PORT}.app.github.dev", line 179
FrontendUrl(codespace) ==
    [scheme |-> "https://", codespace |-> codespace, dash |-> "-", port |-> FRONTEND_PORT,
     suffix |-> ".app.github.dev", path |-> ""]

\* LoginUrl with the bug of handing out the site root.
LoginUrl_NoLoginPath(codespace) == FrontendUrl(codespace)

\* f"{frontend_url}/login", line 181
LoginUrl(codespace) == [FrontendUrl(codespace) EXCEPT !.path = "/login"]

\* The CLI is run only when CODESPACE_NAME is set, line 162.
CliInvoked(codespace) == codespace # ""

make_ports_public(codespace, cli) ==
    IF ~CliInvoked(codespace)
    THEN [success |-> FALSE, error |-> "CODESPACE_NAME env var not set -- not in a codespace?"]
    ELSE CASE cli = "nonzero" -> [success |-> FALSE, error |-> "gh ports failed: stderr"]
           [] cli = "notfound" -> [success |-> FALSE, error |-> "gh CLI not found"]
           [] cli = "timeout" -> [success |-> FALSE, error |-> "gh ports timed out"]
           [] cli = "ok" -> [success |-> TRUE, frontend_url |-> LoginUrl(codespace)]

\* MakePortsPublic with the bug of treating a missing CLI as a test failure.
MakePortsPublic_ExitByReason ==
    /\ pc = "ports"
    /\ \E codespace \in Codespaces, cli \in CliOutcomes :
         LET p == make_ports_public(codespace, cli) IN
         /\ ports' = p
         /\ codespace_env' = codespace
         /\ calls' = IF CliInvoked(codespace) THEN Append(calls, "gh ports") ELSE calls
         /\ IF ~p.success
            THEN /\ output' = [output EXCEPT !.browser_smoke_test =
                                   [overall |-> "error", error |-> p.error]]
                 /\ exit_code' = IF p.error = "gh CLI not found" THEN 1 ELSE 2
                 /\ pc' = "write"
            ELSE /\ UNCHANGED <<output, exit_code>>
                 /\ pc' = "features"
    /\ UNCHANGED <<now, attempt, browser_reachable, skip_browser, sleeps, result, token,
                   features, agent_request, returned, last_http, files, stdout, users,
                   frontend_dir, prev,
                   features_file, harness>>

MakePortsPublic ==
    /\ pc = "ports"
    /\ \E codespace \in Codespaces, cli \in CliOutcomes :
         LET p == make_ports_public(codespace, cli) IN
         /\ ports' = p
         /\ codespace_env' = codespace
         /\ calls' = IF CliInvoked(codespace) THEN Append(calls, "gh ports") ELSE calls
         /\ IF ~p.success
            THEN /\ output' = [output EXCEPT !.browser_smoke_test =
                                   [overall |-> "error", error |-> p.error]]
                 /\ exit_code' = 2
                 /\ pc' = "write"
            ELSE /\ UNCHANGED <<output, exit_code>>
                 /\ pc' = "features"
    /\ UNCHANGED <<now, attempt, browser_reachable, skip_browser, sleeps, result, token,
                   features, agent_request, returned, last_http, files, stdout, users,
                   frontend_dir, prev,
                   features_file, harness>>

----------------------------------------------------------------------------
(* Step 3: read_features, lines 190-207, and main lines 351-355.           *)

FeatureNames == {"X", "Y"}

FeatureItems ==
    {[name |-> n, status |-> st] : n \in FeatureNames, st \in {"completed", "done", "todo"}}
    \cup {[name |-> "X"], [status |-> "completed"]}

SeqsUpTo(S, n) == UNION {[1..k -> S] : k \in 0..n}

\* features.json: missing, not JSON, JSON without "features", or a feature list
FeatureFiles ==
    {[kind |-> "missing"], [kind |-> "undecodable"], [kind |-> "json", data |-> EmptyDict]}
    \cup {[kind |-> "json", data |-> [features |-> fs]] : fs \in SeqsUpTo(FeatureItems, MaxFeatures)}

\* Selected with the bug of not accepting the status "done".
Selected_OnlyCompleted(feat) == "status" \in DOMAIN feat /\ feat["status"] = "completed"

\* feat.get("status") in ("completed", "done"), line 198
Selected(feat) == "status" \in DOMAIN feat /\ feat["status"] \in {"completed", "done"}

RECURSIVE CompletedNames(_)
CompletedNames(fs) ==
    IF fs = <<>> THEN <<>>
    ELSE IF Selected(Head(fs))
         THEN <<Head(fs)["name"]>> \o CompletedNames(Tail(fs))
         ELSE CompletedNames(Tail(fs))

\* feat["name"] raises KeyError for a selected item without a name
RaisesKeyError(fs) ==
    \E i \in 1..Len(fs) : Selected(fs[i]) /\ "name" \notin DOMAIN fs[i]

read_features(file) ==
    IF file.kind # "json" THEN <<>>
    ELSE LET fs == Get(file.data, "features", <<>>) IN
         IF RaisesKeyError(fs) THEN <<>> ELSE CompletedNames(fs)

\* ReadFeatures with the bug of calling the agent although the probe failed.
ReadFeatures_IgnoresSkip ==
    /\ pc = "features"
    /\ \E file \in FeatureFiles :
         /\ features' = read_features(file)
         /\ calls' = Append(calls, "read features.json")
    /\ pc' = "agent"
    /\ UNCHANGED <<now, attempt, browser_reachable, skip_browser, sleeps, result, token,
                   ports, agent_request, output, exit_code, returned, last_http, files,
                   stdout, users, frontend_dir, codespace_env, prev,
                   features_file, harness>>

ReadFeatures ==
    /\ pc = "features"
    /\ \E file \in FeatureFiles :
         /\ features' = read_features(file)
         /\ calls' = Append(calls, "read features.json")
    /\ pc' = IF skip_browser THEN "write" ELSE "agent"
    /\ UNCHANGED <<now, attempt, browser_reachable, skip_browser, sleeps, result, token,
                   ports, agent_request, output, exit_code, returned, last_http, files,
                   stdout, users, frontend_dir, codespace_env, prev,
                   features_file, harness>>

----------------------------------------------------------------------------
(* Step 4: call_browser_agent, lines 213-267, and main lines 358-369.      *)

Overalls == {"pass", "fail", "error", "skipped", "unknown", "weird"}

\* Result objects of the agent: "overall" present or not, no screenshots.
PlainResults == {[overall |-> o] : o \in Overalls} \cup {EmptyDict}

\* 2xx bodies: a result at the top level or under "smokeTestResults", and
\* for a passing result every placement of screenshotUrls.
AgentBodies ==
    PlainResults
    \cup {[smokeTestResults |-> inner] : inner \in PlainResults}
    \cup {[overall |-> "pass", screenshotUrls |-> "top-urls"],
          [smokeTestResults |-> [overall |-> "pass"], screenshotUrls |-> "envelope-urls"],
          [smokeTestResults |-> [overall |-> "pass", screenshotUrls |-> "inner-urls"]],
          [smokeTestResults |-> [overall |-> "pass", screenshotUrls |-> "inner-urls"],
           screenshotUrls |-> "envelope-urls"]}

AgentWires ==
    {Transport,
     Response(200, FALSE, EmptyDict),
     Response(500, TRUE, [error |-> "internal"]),
     Response(502, FALSE, EmptyDict)} \cup
    {Response(200, TRUE, b) : b \in AgentBodies}

SmokeRequest(frontend_url, email, password, feats) ==
    [url |-> frontend_url,
     credentials |-> [email |-> email, password |-> password],
     features |-> feats,
     maxIterations |-> 15,
     timeout |-> 120000,
     uploadScreenshots |-> TRUE]

\* Unwrap with the bug of letting the envelope's screenshotUrls win.
Unwrap_EnvelopeUrlsWin(body) ==
    LET smoke == Put(Get(body, "smokeTestResults", body), "service_reachable", TRUE) IN
    IF "smokeTestResults" \in DOMAIN body /\ "screenshotUrls" \in DOMAIN body
    THEN Put(smoke, "screenshotUrls", body["screenshotUrls"])
    ELSE smoke

\* Lines 250-254 on a 2xx body.
Unwrap(body) ==
    LET smoke == Put(Get(body, "smokeTestResults", body), "service_reachable", TRUE) IN
    IF "smokeTestResults" \in DOMAIN body
       /\ "screenshotUrls" \in DOMAIN body /\ "screenshotUrls" \notin DOMAIN smoke
    THEN Put(smoke, "screenshotUrls", body["screenshotUrls"])
    ELSE smoke

\* call_browser_agent with the bug of reporting an HTTP error as unreachable.
call_browser_agent_HttpErrorIsSkipped(r) ==
    IF r.status = 0 \/ StepFailed(r.status)
    THEN [overall |-> "skipped",
          reason |-> [msg |-> "Browser agent unreachable", error |-> Get(r.body, "error", NoneVal)],
          service_reachable |-> FALSE]
    ELSE Unwrap(r.body)

\* Lines 233-267 on the (status, body) http_post returned.
call_browser_agent(r) ==
    IF r.status = 0
    THEN [overall |-> "skipped",
          reason |-> [msg |-> "Browser agent unreachable", error |-> Get(r.body, "error", NoneVal)],
          service_reachable |-> FALSE]
    ELSE IF StepFailed(r.status)
    THEN [overall |-> "error",
          error |-> [msg |-> "Browser agent returned HTTP", status |-> r.status],
          detail |-> r.body,
          service_reachable |-> TRUE]
    ELSE Unwrap(r.body)

\* ExitCodeFor with the bug of counting a skipped test as a failed one.
ExitCodeFor_SkippedIsFailure(overall) == IF overall = "pass" THEN 0 ELSE 1

\* Lines 363-369.
ExitCodeFor(overall) ==
    IF overall = "pass" THEN 0
    ELSE IF overall = "skipped" THEN 2
    ELSE 1

CallBrowserAgent ==
    /\ pc = "agent"
    /\ \E wire \in AgentWires :
         LET r == http_post(wire)
             smoke == call_browser_agent(r)
         IN
         /\ agent_request' = SmokeRequest(ports.frontend_url, result.email, result.password, features)
         /\ last_http' = HttpCall("http_post", "agent/smoke-test", wire, r)
         /\ calls' = Append(calls, "POST smoke-test")
         /\ output' = [output EXCEPT !.browser_smoke_test = smoke]
         /\ exit_code' = ExitCodeFor(Get(smoke, "overall", "unknown"))
    /\ pc' = "write"
    /\ UNCHANGED <<now, attempt, browser_reachable, skip_browser, sleeps, result, token,
                   ports, features, returned, files, stdout, users, frontend_dir, codespace_env, prev,
                   features_file, harness>>

----------------------------------------------------------------------------
(* Report, lines 372-387.                                                  *)

\* json.dump(output, f, indent=2) / json.dumps(output, indent=2)
JsonDump(v) == [json |-> v, indent |-> 2]

\* WriteResults with the bug of dumping the report before exit_code is set.
WriteResults_BeforeExitCode ==
    /\ pc = "write"
    /\ files' = [files EXCEPT !.results = JsonDump(output)]
    /\ output' = Put(output, "exit_code", exit_code)
    /\ calls' = Append(calls, "write results")
    /\ pc' = "print"
    /\ UNCHANGED <<now, attempt, browser_reachable, skip_browser, sleeps, result, token,
                   ports, features, agent_request, exit_code, returned, last_http,
                   stdout, users, frontend_dir, codespace_env, prev,
                   features_file, harness>>

WriteResults ==
    /\ pc = "write"
    /\ output' = Put(output, "exit_code", exit_code)
    /\ files' = [files EXCEPT !.results = JsonDump(output')]
    /\ calls' = Append(calls, "write results")
    /\ pc' = "print"
    /\ UNCHANGED <<now, attempt, browser_reachable, skip_browser, sleeps, result, token,
                   ports, features, agent_request, exit_code, returned, last_http,
                   stdout, users, frontend_dir, codespace_env, prev,
                   features_file, harness>>

PrintReport ==
    /\ pc = "print"
    /\ stdout' = Append(stdout, JsonDump(output))
    /\ calls' = Append(calls, "print stdout")
    /\ returned' = exit_code
    /\ pc' = "done"
    /\ UNCHANGED <<now, attempt, browser_reachable, skip_browser, sleeps, result, token,
                   ports, features, agent_request, output, exit_code, last_http, files,
                   users, frontend_dir, codespace_env, prev,
                   features_file, harness>>

Next ==
    \/ ProbeAttempt
    \/ ProbeDone
    \/ Register
    \/ Login
    \/ Verify
    \/ FrontendCheck
    \/ MakePortsPublic
    \/ ReadFeatures
    \/ CallBrowserAgent
    \/ WriteResults
    \/ PrintReport

Spec == Init /\ [][Next]_vars

\* main() is straight-line code: a run that has not returned takes its next step.
LiveSpec == Spec /\ WF_vars(Next)

----------------------------------------------------------------------------
(* A second run of the script, in a fresh working directory, against the   *)
(* same backend, no earlier than the first.  prev keeps what the first run *)
(* evaluated and the exit code it returned.                                *)

TupleKeys ==
    {"probe", "auth"}
    \cup (IF frontend_dir # "unset" THEN {"frontend"} ELSE {})
    \cup (IF ports # NoneVal THEN {"ports"} ELSE {})
    \cup (IF agent_request # NoneVal THEN {"overall"} ELSE {})

\* (probe-reachable, auth.success, frontend-present, ports.success, smoke.overall),
\* restricted to the components the run evaluated.
Tuple ==
    [k \in TupleKeys |->
        CASE k = "probe" -> browser_reachable
          [] k = "auth" -> result.success
          [] k = "frontend" -> frontend_dir = "present"
          [] k = "ports" -> ports.success
          [] k = "overall" -> Get(output.browser_smoke_test, "overall", "(absent)")]

NewRun ==
    /\ pc = "done"
    /\ prev = NoRun
    /\ prev' = [tuple |-> Tuple, exit_code |-> returned]
    /\ output' = NewOutput(now)
    /\ pc' = "probe"
    /\ attempt' = 0
    /\ browser_reachable' = FALSE
    /\ skip_browser' = FALSE
    /\ sleeps' = <<>>
    /\ result' = NoneVal
    /\ token' = ""
    /\ ports' = NoneVal
    /\ features' = <<>>
    /\ agent_request' = NoneVal
    /\ exit_code' = 0
    /\ returned' = -1
    /\ last_http' = NoCall
    /\ calls' = <<>>
    /\ files' = [credentials |-> NoneVal, results |-> NoneVal]
    /\ stdout' = <<>>
    /\ frontend_dir' = "unset"
    /\ codespace_env' = "(unread)"
    /\ UNCHANGED <<now, users, features_file, harness>>

NextRuns == Next \/ NewRun

SpecRuns == Init /\ [][NextRuns]_vars

----------------------------------------------------------------------------
(* read_features on every features.json.  The run starts where main() is   *)
(* about to call read_features (line 352) after a reachable probe, a       *)
(* successful auth flow and published ports; features_file is the content  *)
(* of features.json, which no step of the script writes.                   *)

AtReadFeatures ==
    LET email == Email(1)
        auth == [NewResult(email) EXCEPT
                   !.success = TRUE,
                   !.steps = [register |-> [status |-> 200,
                                            response |-> [user |-> email, token |-> "jwt"]],
                              login |-> [status |-> 200],
                              verify_token |-> [status |-> 200]]]
        res == Put(auth, "token_verified", TRUE)
    IN
    /\ pc = "features"
    /\ now = 1
    /\ attempt = 1
    /\ browser_reachable = TRUE
    /\ skip_browser = FALSE
    /\ sleeps = <<>>
    /\ result = res
    /\ token = ""
    /\ ports = make_ports_public("cs-1", "ok")
    /\ features = <<>>
    /\ agent_request = NoneVal
    /\ output = [NewOutput(1) EXCEPT !.auth = res]
    /\ exit_code = 0
    /\ returned = -1
    /\ last_http = HttpCall("http_get", "backend/api/users/me",
                            Response(200, TRUE, [id |-> 1]), [status |-> 200])
    /\ calls = <<"GET agent/", "POST register", "POST login", "GET users/me",
                 "write credentials", "isdir frontend", "gh ports">>
    /\ files = [credentials |-> [email |-> email, password |-> PASSWORD], results |-> NoneVal]
    /\ stdout = <<>>
    /\ users = <<[id |-> 1, email |-> email]>>
    /\ frontend_dir = "present"
    /\ codespace_env = "cs-1"
    /\ prev = NoRun
    /\ harness = NoHarness

InitFeatures ==
    /\ AtReadFeatures
    /\ features_file \in FeatureFiles

\* features = read_features() on the file that is there, line 352
ReadFeaturesFile ==
    /\ pc = "features"
    /\ features_file \in FeatureFiles
    /\ features' = read_features(features_file)
    /\ calls' = Append(calls, "read features.json")
    /\ pc' = IF skip_browser THEN "write" ELSE "agent"
    /\ UNCHANGED <<now, attempt, browser_reachable, skip_browser, sleeps, result, token,
                   ports, agent_request, output, exit_code, returned, last_http, files,
                   stdout, users, frontend_dir, codespace_env, prev,
                   features_file, harness>>

NextFeatures ==
    \/ ReadFeaturesFile
    \/ CallBrowserAgent
    \/ WriteResults
    \/ PrintReport

SpecFeatures == InitFeatures /\ [][NextFeatures]_vars

----------------------------------------------------------------------------
(* scripts/test-browser-agent.py: wake the fixture, reset it, run the      *)
(* smoke test against it.  harness.elapsed is time.time() - start of       *)
(* wake_fixture in seconds, harness.result the result main() prints.       *)

MAX_WAIT == 90
WAKE_SLEEP == 5
HEALTH_TIMEOUT == 10

SEED_EMAIL == "test@fixture.example.com"
SEED_PASSWORD == "TestFixture123!"

\* Lines 35-52: HTTPError gives its code, any other exception status 0.
harness_http_post(wire) ==
    IF wire.kind = "transport"
    THEN [status |-> 0, body |-> [error |-> "unreachable"]]
    ELSE IF Is2xx(wire.code)
         THEN IF wire.decodable
              THEN [status |-> wire.code, body |-> wire.body]
              ELSE [status |-> 0, body |-> [error |-> "Expecting value"]]
         ELSE IF wire.decodable
              THEN [status |-> wire.code, body |-> wire.body]
              ELSE [status |-> wire.code, body |-> [raw |-> "reason"]]

\* Lines 55-61: every exception, HTTPError included, gives status 0.
harness_http_get(wire) ==
    IF wire.kind = "response" /\ Is2xx(wire.code) /\ wire.decodable
    THEN [status |-> wire.code, body |-> wire.body]
    ELSE [status |-> 0, body |-> [error |-> "exception"]]

HealthWires ==
    {Transport,
     Response(200, TRUE, [status |-> "ok"]),
     Response(200, FALSE, EmptyDict),
     Response(204, TRUE, EmptyDict),
     Response(503, TRUE, [detail |-> "starting"])}

ResetWires ==
    {Transport,
     Response(200, TRUE, [seed_user |-> SEED_EMAIL]),
     Response(200, FALSE, EmptyDict),
     Response(201, TRUE, [seed_user |-> SEED_EMAIL]),
     Response(500, TRUE, [detail |-> "reset failed"])}

\* The request of run_smoke_test, lines 92-113.
HarnessRequest ==
    [url |-> "fixture",
     credentials |-> [email |-> SEED_EMAIL, password |-> SEED_PASSWORD],
     features |-> <<"User Authentication", "Project Management", "Task Management",
                    "Dashboard", "Navigation">>,
     maxIterations |-> 15,
     timeout |-> 120000]

\* Lines 115-138 on the (status, body) http_post returned.
run_smoke_test(r) ==
    IF r.status = 0
    THEN [overall |-> "error",
          error |-> [msg |-> "Browser agent unreachable", error |-> Get(r.body, "error", NoneVal)]]
    ELSE IF r.status < 200 \/ r.status >= 300
    THEN [overall |-> "error", error |-> [msg |-> "HTTP", status |-> r.status], detail |-> r.body]
    ELSE Get(r.body, "smokeTestResults", r.body)

\* Lines 172-177.
HarnessExitCode(overall) ==
    IF overall = "pass" THEN 0
    ELSE IF overall = "error" THEN 2
    ELSE 1

\* What the harness leaves alone.
OrchestratorVars ==
    <<now, attempt, browser_reachable, skip_browser, sleeps, result, token, ports, features,
      output, exit_code, files, users, frontend_dir, codespace_env, prev, features_file>>

InitHarness ==
    /\ pc = "h_wake"
    /\ now = 1
    /\ attempt = 0
    /\ browser_reachable = FALSE
    /\ skip_browser = FALSE
    /\ sleeps = <<>>
    /\ result = NoneVal
    /\ token = ""
    /\ ports = NoneVal
    /\ features = <<>>
    /\ agent_request = NoneVal
    /\ output = NewOutput(1)
    /\ exit_code = 0
    /\ returned = -1
    /\ last_http = NoCall
    /\ calls = <<>>
    /\ files = [credentials |-> NoneVal, results |-> NoneVal]
    /\ stdout = <<>>
    /\ users = <<>>
    /\ frontend_dir = "unset"
    /\ codespace_env = "(unread)"
    /\ prev = NoRun
    /\ features_file = NoFile
    /\ harness = NoHarness

\* main() returning code after printing res, lines 152-153, 157-158, 170-177.
HarnessReturns(res, code) ==
    /\ harness' = [harness EXCEPT !.result = res]
    /\ stdout' = Append(stdout, JsonDump(res))
    /\ returned' = code
    /\ pc' = "h_done"

\* One turn of the loop of wake_fixture, lines 68-74.
WakeFixture ==
    /\ pc = "h_wake"
    /\ harness.elapsed < MAX_WAIT
    /\ \E wire \in HealthWires, took \in {0, HEALTH_TIMEOUT} :
         LET r == harness_http_get(wire) IN
         /\ last_http' = HttpCall("http_get", "fixture/api/health", wire, r)
         /\ calls' = Append(calls, "GET health")
         /\ IF r.status = 200
            THEN /\ pc' = "h_reset"
                 /\ UNCHANGED harness
            ELSE /\ pc' = "h_wake"
                 /\ harness' = [harness EXCEPT !.elapsed = @ + took + WAKE_SLEEP]
    /\ UNCHANGED <<agent_request, stdout, returned>>
    /\ UNCHANGED OrchestratorVars

\* wake_fixture returns False, lines 75-76, and main() returns 2, lines 151-153.
WakeTimedOut ==
    /\ pc = "h_wake"
    /\ harness.elapsed >= MAX_WAIT
    /\ HarnessReturns([overall |-> "error", error |-> "Fixture unreachable"], 2)
    /\ UNCHANGED <<agent_request, last_http, calls>>
    /\ UNCHANGED OrchestratorVars

\* reset_fixture, lines 79-87, and main() lines 156-158.
ResetFixture ==
    /\ pc = "h_reset"
    /\ \E wire \in ResetWires :
         LET r == harness_http_post(wire) IN
         /\ last_http' = HttpCall("http_post", "fixture/api/admin/reset", wire, r)
         /\ calls' = Append(calls, "POST reset")
         /\ IF r.status = 200
            THEN /\ pc' = "h_smoke"
                 /\ UNCHANGED <<harness, stdout, returned>>
            ELSE HarnessReturns([overall |-> "error", error |-> "Fixture reset failed"], 2)
    /\ UNCHANGED agent_request
    /\ UNCHANGED OrchestratorVars

\* run_smoke_test and the rest of main(), lines 161-177.
RunSmokeTest ==
    /\ pc = "h_smoke"
    /\ \E wire \in AgentWires :
         LET r == harness_http_post(wire)
             res == run_smoke_test(r)
         IN
         /\ agent_request' = HarnessRequest
         /\ last_http' = HttpCall("http_post", "agent/smoke-test", wire, r)
         /\ calls' = Append(calls, "POST smoke-test")
         /\ HarnessReturns(res, HarnessExitCode(Get(res, "overall", "unknown")))
    /\ UNCHANGED OrchestratorVars

NextHarness ==
    \/ WakeFixture
    \/ WakeTimedOut
    \/ ResetFixture
    \/ RunSmokeTest

SpecHarness == InitHarness /\ [][NextHarness]_vars

----------------------------------------------------------------------------
(* Properties of qa-smoke-test.py.                                         *)

Called(op) == \E i \in 1..Len(calls) : calls[i] = op

Count(op) == Cardinality({i \in 1..Len(calls) : calls[i] = op})

\* main() has left the branch cascade: only the report is left to write.
Reporting == pc \in {"write", "print", "done"}

Browser == output.browser_smoke_test

\* C1: when auth succeeds, the frontend is present, the ports are published
\* and the probe failed on all its attempts, the browser agent is not called,
\* browser_smoke_test.overall stays "error" and the exit code is 2.
C1_ProbeExhaustedExitsTwo ==
    (/\ pc = "done"
     /\ result.success
     /\ frontend_dir = "present"
     /\ ports # NoneVal /\ ports.success
     /\ attempt = WAKE_RETRIES /\ ~browser_reachable)
    => /\ ~Called("POST smoke-test")
       /\ Browser = ProbeUnreachableResult
       /\ returned = 2
       /\ output.exit_code = 2

\* C2: a written report has exit_code 0 only for a full pass: auth.success
\* is true and browser_smoke_test.overall is "pass" or "not_applicable".
C2_ExitZeroOnlyOnFullPass ==
    (files.results # NoneVal /\ files.results.json.exit_code = 0)
    => /\ files.results.json.auth.success
       /\ Get(files.results.json.browser_smoke_test, "overall", "(absent)")
             \in {"pass", "not_applicable"}

\* C3: when the auth flow fails, whatever the probe found, the report has
\* auth.success false, browser_smoke_test.overall "error" with the auth error
\* in its text, the exit code is 1, and no port publication, feature loading
\* or browser-agent POST happens in the run.
C3_AuthFailureExitsOne ==
    (Reporting /\ ~result.success)
    => /\ output.auth = result
       /\ "error" \in DOMAIN result
       /\ DOMAIN Browser = {"overall", "error"}
       /\ Browser.overall = "error"
       /\ Browser.error.msg = "Auth failed"
       /\ Browser.error.cause = result.error
       /\ exit_code = 1
       /\ pc = "done" => (returned = 1 /\ output.exit_code = 1)
       /\ ~Called("isdir frontend") /\ ~Called("gh ports")
       /\ ~Called("read features.json") /\ ~Called("POST smoke-test")
       /\ ports = NoneVal /\ agent_request = NoneVal

C3_Witness ==
    /\ pc = "done"
    /\ ~result.success
    /\ attempt = WAKE_RETRIES /\ ~browser_reachable
    /\ result.error.msg = "Login response has no token field"

\* C4: when auth succeeds and there is no frontend directory, whatever the
\* probe found, browser_smoke_test.overall is "not_applicable", the exit code
\* is 0, and neither the port-publishing CLI nor the browser agent is called.
C4_NoFrontendExitsZero ==
    (Reporting /\ result.success /\ frontend_dir = "absent")
    => /\ Browser = [overall |-> "not_applicable"]
       /\ exit_code = 0
       /\ pc = "done" => (returned = 0 /\ output.exit_code = 0)
       /\ ~Called("gh ports") /\ ~Called("POST smoke-test")
       /\ ports = NoneVal /\ agent_request = NoneVal

C4_Witness ==
    /\ pc = "done"
    /\ result.success
    /\ frontend_dir = "absent"
    /\ attempt = WAKE_RETRIES /\ ~browser_reachable

\* C5: when port publication fails (CODESPACE_NAME absent, CLI non-zero exit,
\* CLI not found, CLI timeout), browser_smoke_test is "error" with the
\* publisher's error, the exit code is 2 and the browser agent is never called;
\* with the identifier absent the CLI is not run; on success the URL given to
\* the invoker is https://<identifier>-3000.app.github.dev/login.
C5_PortsFailureExitsTwo ==
    /\ (Reporting /\ ports # NoneVal /\ ~ports.success)
       => /\ ports.error \in {"CODESPACE_NAME env var not set -- not in a codespace?",
                              "gh ports failed: stderr", "gh CLI not found", "gh ports timed out"}
          /\ Browser = [overall |-> "error", error |-> ports.error]
          /\ exit_code = 2
          /\ pc = "done" => (returned = 2 /\ output.exit_code = 2)
          /\ ~Called("POST smoke-test") /\ agent_request = NoneVal
    /\ codespace_env = "" => (~Called("gh ports") /\ ports # NoneVal /\ ~ports.success)
    /\ codespace_env \notin {"", "(unread)"} => Count("gh ports") = 1
    /\ (ports # NoneVal /\ ports.success)
       => ports.frontend_url =
            [scheme |-> "https://", codespace |-> codespace_env, dash |-> "-", port |-> 3000,
             suffix |-> ".app.github.dev", path |-> "/login"]
    /\ agent_request # NoneVal
       => agent_request.url =
            [scheme |-> "https://", codespace |-> codespace_env, dash |-> "-", port |-> 3000,
             suffix |-> ".app.github.dev", path |-> "/login"]

C5_Witness ==
    /\ pc = "done"
    /\ codespace_env = "cs-2"
    /\ ports = [success |-> FALSE, error |-> "gh ports timed out"]
    /\ browser_reachable

\* C6: when the browser agent is invoked, the exit code follows the overall
\* field of the SmokeResult it returned: "pass" gives 0, "skipped" gives 2,
\* any other value or an absent field gives 1; the SmokeResult is stored
\* unchanged as browser_smoke_test.
C6_ExitCodeFromOverall ==
    (Reporting /\ agent_request # NoneVal)
    => LET smoke == IF pc = "write" THEN Browser ELSE files.results.json.browser_smoke_test
           overall == Get(smoke, "overall", "(absent)")
       IN
       /\ Browser = call_browser_agent(http_post(last_http.wire))
       /\ smoke = Browser
       /\ overall = "pass" => exit_code = 0
       /\ overall = "skipped" => exit_code = 2
       /\ overall \notin {"pass", "skipped"} => exit_code = 1
       /\ pc = "done" => (returned = exit_code /\ output.exit_code = exit_code)

C6_Witness ==
    /\ pc = "done"
    /\ agent_request # NoneVal
    /\ "overall" \notin DOMAIN Browser
    /\ returned = 1

\* C7: the exit code of main() is a function of (probe-reachable,
\* auth.success, frontend-present, ports.success, smoke.overall): two runs
\* that agree on the components they evaluated return the same exit code.
C7_ExitCodeFunctionOfTuple ==
    (pc = "done" /\ prev # NoRun /\ prev.tuple = Tuple) => prev.exit_code = returned

C7_Witness ==
    /\ pc = "done"
    /\ prev # NoRun
    /\ prev.tuple = Tuple
    /\ "overall" \in DOMAIN Tuple
    /\ Len(users) = 2
    /\ attempt = 3
    /\ ~result.token_verified
    /\ Len(features) = 2

C8_ReportComplete ==
    /\ Count("write results") <= 1
    /\ Count("print stdout") <= 1
    /\ pc # "done" => stdout = <<>>
    /\ pc = "done"
       => /\ Count("write results") = 1
          /\ calls[Len(calls)] = "print stdout"
          /\ calls[Len(calls) - 1] = "write results"
          /\ files.results = [json |-> output, indent |-> 2]
          /\ stdout = <<files.results>>
          /\ DOMAIN output = {"timestamp", "auth", "browser_smoke_test", "exit_code"}
          /\ output.auth # NoneVal
          /\ output.browser_smoke_test # NoneVal

\* C8: on every branch the run ends having written the report to the results
\* file exactly once and then printed the same report to stdout as its last
\* output action; the report has timestamp, auth, browser_smoke_test and
\* exit_code, with auth and browser_smoke_test non-null.
C8_ReportAlwaysWrittenThenPrinted == []C8_ReportComplete /\ <>(pc = "done")

C8_Witness ==
    /\ pc = "done"
    /\ stdout # <<>>
    /\ attempt = WAKE_RETRIES /\ ~browser_reachable
    /\ ports # NoneVal /\ ports.success

\* C9: http_post and http_get return status 0 exactly when the call failed
\* at transport level; when the server delivered an HTTP response, whatever
\* its body, the returned status is the response's status code.
C9_StatusZeroIffTransportFailure ==
    last_http.fn # "none"
    => /\ last_http.status = 0 <=> last_http.wire.kind = "transport"
       /\ last_http.wire.kind = "response" => last_http.status = last_http.wire.code

C10_ProbeBounded ==
    /\ attempt <= 4
    /\ Count("GET agent/") = attempt
    /\ (pc = "probe" /\ attempt > 0) => (browser_reachable <=> last_http.status # 0)
    /\ pc # "probe" => (~browser_reachable <=> (attempt = 4 /\ skip_browser))

C10_ProbeStep ==
    /\ attempt' # attempt
       => /\ pc = "probe" /\ ~browser_reachable
          /\ attempt' = attempt + 1
          /\ last_http'.url = "agent/"
          /\ browser_reachable' <=> last_http'.status # 0
    /\ browser_reachable => browser_reachable'

\* C10: the probe makes at most 4 GETs; an attempt with a non-zero status
\* sets browser_reachable and ends the probe; browser_reachable is false
\* after the probe exactly when all 4 attempts returned 0; the probe ends.
C10_ProbeTerminatesWithinRetries ==
    []C10_ProbeBounded /\ [][C10_ProbeStep]_vars /\ <>(pc # "probe")

C10_Witness ==
    /\ pc = "register"
    /\ browser_reachable
    /\ attempt = 4
    /\ last_http.status = 503

Pos(op) == CHOOSE i \in 1..Len(calls) : calls[i] = op

C11_AuthStepsGated ==
    /\ Count("POST register") <= 1 /\ Count("POST login") <= 1 /\ Count("GET users/me") <= 1
    /\ Called("POST login")
       => /\ Called("POST register") /\ Pos("POST register") < Pos("POST login")
          /\ result.steps.register.status \in 200..299
    /\ Called("GET users/me")
       => /\ Called("POST login") /\ Pos("POST login") < Pos("GET users/me")
          /\ result.steps.login.status \in 200..299
    /\ pc = "verify" => token # ""
    /\ result # NoneVal
       => /\ DOMAIN result.steps \in {{"register"}, {"register", "login"},
                                      {"register", "login", "verify_token"}}
          /\ result.steps.register.status \notin 200..299
             => /\ Reporting /\ ~result.success /\ "error" \in DOMAIN result
                /\ DOMAIN result.steps = {"register"} /\ ~Called("POST login")
          /\ ("login" \in DOMAIN result.steps /\ result.steps.login.status \notin 200..299)
             => /\ Reporting /\ ~result.success /\ "error" \in DOMAIN result
                /\ DOMAIN result.steps = {"register", "login"} /\ ~Called("GET users/me")
          /\ (Reporting /\ "verify_token" \notin DOMAIN result.steps)
             => /\ ~result.success /\ "error" \in DOMAIN result /\ ~Called("GET users/me")

C11_VerifyStep ==
    (~Called("GET users/me") /\ Called("GET users/me")') => (pc = "verify" /\ token # "")

\* C11: run_auth_test calls register, login, verify_token in that order;
\* login is sent only after a 2xx register, verify only after a 2xx login
\* with a token extracted; the first failing step returns at once with
\* success false and error set, so the keys of steps are a prefix of
\* (register, login, verify_token).
C11_AuthFlowOrderedAndGated == []C11_AuthStepsGated /\ [][C11_VerifyStep]_vars

C11_Witness ==
    /\ pc = "done"
    /\ DOMAIN result.steps = {"register", "login"}
    /\ result.steps.login.status = 200
    /\ result.error.msg = "Login response has no token field"

\* C12: the verify step never gates success: AuthOutcome.success is true
\* exactly when register and login returned 2xx and a token was extracted,
\* whatever verify returned; token_verified is present exactly when success
\* is true and equals (verify status in [200,300)); a failed verify sets no
\* error.
C12_VerifyDoesNotGateSuccess ==
    /\ pc = "verify" => (/\ result.steps.register.status \in 200..299
                         /\ result.steps.login.status \in 200..299
                         /\ token # "")
    /\ output.auth # NoneVal
       => LET a == output.auth IN
          /\ a.success <=> "verify_token" \in DOMAIN a.steps
          /\ a.success <=> "token_verified" \in DOMAIN a
          /\ a.success <=> "error" \notin DOMAIN a
          /\ a.success
             => /\ a.steps.register.status \in 200..299
                /\ a.steps.login.status \in 200..299
                /\ a.token_verified <=> a.steps.verify_token.status \in 200..299
                /\ last_http.url = "backend/api/users/me"
                   => a.steps.verify_token.status = last_http.status
          /\ ~a.success
             => \/ a.steps.register.status \notin 200..299
                \/ a.steps.login.status \notin 200..299
                \/ a.error.msg = "Login response has no token field"

C12_Witness ==
    /\ pc = "done"
    /\ result.success
    /\ ~result.token_verified
    /\ result.steps.verify_token.status = 503

\* The login body of the run, once login has answered 2xx with a JSON object.
LoginAnswered == last_http.url = "backend/api/auth/login" /\ last_http.status \in 200..299

\* Positions in (token, access_token, idToken, id_token) of the non-empty fields.
NonEmptyAt(body) ==
    {i \in 1..4 : <<"token", "access_token", "idToken", "id_token">>[i] \in DOMAIN body
                  /\ body[<<"token", "access_token", "idToken", "id_token">>[i]] # ""}

\* C13: the token is the value of the first non-empty field among token,
\* access_token, idToken, id_token, in that order; with no non-empty field
\* the flow returns success false with an error listing the keys of the
\* login body, and verify is not called.
C13_TokenFieldPriority ==
    LoginAnswered
    => LET body == last_http.wire.body
           at == NonEmptyAt(body)
       IN
       IF at = {}
       THEN /\ Reporting
            /\ ~result.success
            /\ result.error = [msg |-> "Login response has no token field", keys |-> DOMAIN body]
            /\ ~Called("GET users/me")
       ELSE LET first == CHOOSE i \in at : \A j \in at : i <= j IN
            /\ pc = "verify"
            /\ token = body[<<"token", "access_token", "idToken", "id_token">>[first]]

C13_Witness ==
    /\ LoginAnswered
    /\ DOMAIN last_http.wire.body = {"token", "access_token", "id_token"}
    /\ last_http.wire.body["token"] # ""
    /\ last_http.wire.body["access_token"] # ""
    /\ token = last_http.wire.body["token"]

C14_CredentialsMatchOutcome ==
    /\ Count("write credentials") <= 1
    /\ output.auth = NoneVal => (files.credentials = NoneVal /\ ~Called("write credentials"))
    /\ output.auth # NoneVal
       => LET a == output.auth IN
          /\ a.success <=> Called("write credentials")
          /\ a.success => files.credentials = [email |-> a.email, password |-> a.password]
          /\ ~a.success => files.credentials = NoneVal

C14_CredentialsStep ==
    files'.credentials # files.credentials
    => /\ pc = "verify"
       /\ result'.success
       /\ result'.email = result.email
       /\ files'.credentials = [email |-> result'.email, password |-> "TestPass123!"]

\* C14: qa-test-credentials.json is written by a run exactly when the run's
\* AuthOutcome has success true, and then holds that run's email and
\* password; every failure path of the auth flow leaves the file unchanged.
C14_CredentialsWrittenIffSuccess ==
    []C14_CredentialsMatchOutcome /\ [][C14_CredentialsStep]_vars

C14_Witness ==
    /\ pc = "done"
    /\ result.success
    /\ result.email.stamp = 2
    /\ files.credentials = [email |-> result.email, password |-> "TestPass123!"]

AgentAnswered2xx ==
    /\ agent_request # NoneVal
    /\ last_http.url = "agent/smoke-test"
    /\ last_http.status \in 200..299

\* C15: on a 2xx body call_browser_agent returns the object under
\* "smokeTestResults" if that key is present and the body itself otherwise,
\* with service_reachable = TRUE added; the envelope's screenshotUrls is
\* copied in only when the inner object has none, and every other field of
\* the inner object is returned as it came.
C15_UnwrapPreservesInner ==
    AgentAnswered2xx
    => LET body == last_http.wire.body
           wrapped == "smokeTestResults" \in DOMAIN body
           inner == IF wrapped THEN body["smokeTestResults"] ELSE body
           copied == /\ wrapped
                     /\ "screenshotUrls" \in DOMAIN body
                     /\ "screenshotUrls" \notin DOMAIN inner
       IN
       /\ Browser["service_reachable"] = TRUE
       /\ DOMAIN Browser = DOMAIN inner \cup {"service_reachable"}
                             \cup (IF copied THEN {"screenshotUrls"} ELSE {})
       /\ \A k \in DOMAIN inner \ {"service_reachable"} : Browser[k] = inner[k]
       /\ copied => Browser["screenshotUrls"] = body["screenshotUrls"]
       /\ (Reporting /\ "overall" \in DOMAIN inner /\ inner["overall"] = "pass") => exit_code = 0

C15_Witness ==
    /\ pc = "done"
    /\ AgentAnswered2xx
    /\ DOMAIN last_http.wire.body = {"smokeTestResults", "screenshotUrls"}
    /\ "screenshotUrls" \in DOMAIN last_http.wire.body["smokeTestResults"]
    /\ Browser = [overall |-> "pass", screenshotUrls |-> "inner-urls", service_reachable |-> TRUE]

AgentCalled ==
    /\ agent_request # NoneVal
    /\ last_http.url = "agent/smoke-test"

\* C16: call_browser_agent classifies by the status the HTTP layer returned:
\* 0 gives {overall "skipped", reason, service_reachable FALSE} and exit
\* code 2; a non-zero status outside 200..299 gives {overall "error", error,
\* detail, service_reachable TRUE} and exit code 1; service_reachable is
\* FALSE exactly when the status was 0.
C16_FailureClassifiedByStatus ==
    AgentCalled
    => /\ "service_reachable" \in DOMAIN Browser
       /\ (Browser["service_reachable"] = FALSE) <=> (last_http.status = 0)
       /\ last_http.status = 0
          => /\ DOMAIN Browser = {"overall", "reason", "service_reachable"}
             /\ Browser["overall"] = "skipped"
             /\ Browser["reason"].msg = "Browser agent unreachable"
             /\ exit_code = 2
             /\ pc = "done" => returned = 2
       /\ (last_http.status # 0 /\ last_http.status \notin 200..299)
          => /\ DOMAIN Browser = {"overall", "error", "detail", "service_reachable"}
             /\ Browser["overall"] = "error"
             /\ Browser["error"] = [msg |-> "Browser agent returned HTTP", status |-> last_http.status]
             /\ last_http.wire.decodable => Browser["detail"] = last_http.wire.body
             /\ exit_code = 1
             /\ pc = "done" => returned = 1

C16_Witness ==
    /\ pc = "done"
    /\ AgentCalled
    /\ last_http.status = 502
    /\ Browser["service_reachable"] = TRUE
    /\ returned = 1

IsCompleted(feat) ==
    /\ "status" \in DOMAIN feat
    /\ (feat["status"] = "completed" \/ feat["status"] = "done")

\* The listed items of a features.json that decoded ([] without "features").
Listed(file) ==
    IF "features" \in DOMAIN file.data THEN file.data["features"] ELSE <<>>

\* An item whose name cannot be taken: it is selected and has no "name".
Malformed(feat) == IsCompleted(feat) /\ "name" \notin DOMAIN feat

\* C17: read_features returns the names of the items of features.json whose
\* status is "completed" or "done", in file order; a missing or undecodable
\* file, or a malformed item, gives the empty sequence, and the run goes on
\* to the browser agent, which is sent the same list.
C17_ReadFeaturesSelectsCompleted ==
    /\ ~Called("read features.json") => (pc = "features" /\ features = <<>>)
    /\ Called("read features.json")
       => /\ features_file.kind \in {"missing", "undecodable"} => features = <<>>
          /\ features_file.kind = "json"
             => LET chosen == SelectSeq(Listed(features_file), IsCompleted) IN
                IF \E i \in 1..Len(Listed(features_file)) : Malformed(Listed(features_file)[i])
                THEN features = <<>>
                ELSE features = [i \in 1..Len(chosen) |-> chosen[i]["name"]]
          /\ ~Called("POST smoke-test") => pc = "agent"
          /\ Called("POST smoke-test") => agent_request.features = features

C17_Witness ==
    /\ pc = "done"
    /\ features_file = [kind |-> "json",
                        data |-> [features |-> <<[name |-> "X", status |-> "completed"],
                                                 [name |-> "Y", status |-> "todo"]>>]]
    /\ features = <<"X">>
    /\ agent_request.features = <<"X">>

RegisterRejected ==
    /\ last_http.url = "backend/api/auth/register"
    /\ last_http.status = 409

\* C18: the fixture backend never holds two users with one email: a register
\* call for a registered email is answered 409 and adds no row; the auth
\* flow then returns success FALSE with the registration error and sends no
\* login request.
C18_DuplicateEmailRejected ==
    /\ \A i, j \in 1..Len(users) : users[i].email = users[j].email => i = j
    /\ RegisterRejected
       => /\ Reporting
          /\ Cardinality({i \in 1..Len(users) : users[i].email = result.email}) = 1
          /\ ~result.success
          /\ result.error = [msg |-> "Registration failed", status |-> 409]
          /\ DOMAIN result.steps = {"register"}
          /\ ~Called("POST login")
          /\ ~Called("GET users/me")

C18_Witness ==
    /\ pc = "done"
    /\ prev # NoRun
    /\ RegisterRejected
    /\ Len(users) = 1
    /\ returned = 1

\* C20: once the probe has returned false the run halts as an infrastructure
\* error: no register, login or verify request, no port-publishing CLI call
\* and no browser-agent call is made, and the exit code is 2.
C20_ExhaustedProbeHaltsPipeline ==
    skip_browser
    => /\ ~Called("POST register")
       /\ ~Called("POST login")
       /\ ~Called("GET users/me")
       /\ ~Called("gh ports")
       /\ ~Called("POST smoke-test")
       /\ pc = "done" => returned = 2

NetworkOrCli ==
    {"GET agent/", "POST register", "POST login", "GET users/me", "gh ports", "POST smoke-test"}

FileWrites == {"write credentials", "write results"}

\* C21: the credentials file and the results file are each written exactly
\* once per run, at process end: no file is written before the last network
\* or CLI step of the run.
C21_FilesWrittenOnceAtEnd ==
    /\ \A i, j \in 1..Len(calls) :
          (calls[i] \in FileWrites /\ calls[j] \in NetworkOrCli) => j < i
    /\ pc = "done"
       => /\ Count("write credentials") = 1
          /\ Count("write results") = 1

\* C22: every executed auth step is recorded in steps with both the status
\* and the response body of its call; a step that fails leaves an error
\* message and the body of the failing call in the report.
C22_StepsRecordStatusAndBody ==
    output.auth # NoneVal
    => LET a == output.auth IN
       /\ \A s \in DOMAIN a.steps : DOMAIN a.steps[s] = {"status", "response"}
       /\ \A s \in DOMAIN a.steps :
             a.steps[s].status \notin 200..299
             => ("error" \in DOMAIN a /\ "response" \in DOMAIN a.steps[s])

SmokeOveralls == {"pass", "fail", "error", "skipped", "not_applicable", "unknown"}

\* C23: in every written report browser_smoke_test has an overall field with
\* one of the six SmokeResult values; a 2xx agent answer without overall is
\* stored with overall "unknown".
C23_ReportOverallInEnum ==
    files.results # NoneVal
    => LET smoke == files.results.json.browser_smoke_test IN
       /\ smoke # NoneVal
       /\ "overall" \in DOMAIN smoke
       /\ smoke["overall"] \in SmokeOveralls
       /\ (AgentAnswered2xx /\ "overall" \notin DOMAIN Get(last_http.wire.body, "smokeTestResults", last_http.wire.body))
          => smoke["overall"] = "unknown"

FailedAttempts == IF browser_reachable THEN attempt - 1 ELSE attempt

RECURSIVE SumSeq(_)
SumSeq(q) == IF q = <<>> THEN 0 ELSE Head(q) + SumSeq(Tail(q))

\* C24: the probe sleeps WAKE_DELAYS[k] after failed attempt k exactly when
\* k is not the final attempt, never after a reachable attempt; four failed
\* attempts give the sleeps 10, 15, 15 (40 seconds, within 55) and the last
\* schedule entry is not used.
C24_SleepBetweenAttemptsOnly ==
    /\ Len(sleeps) = (IF FailedAttempts < WAKE_RETRIES THEN FailedAttempts ELSE WAKE_RETRIES - 1)
    /\ \A k \in 1..Len(sleeps) : sleeps[k] = WAKE_DELAYS[k]
    /\ Count("sleep") = Len(sleeps)
    /\ \A i \in 1..Len(calls) :
          calls[i] = "sleep"
          => /\ i > 1 /\ calls[i - 1] = "GET agent/"
             /\ i < Len(calls) => calls[i + 1] = "GET agent/"
    /\ (browser_reachable \/ attempt = WAKE_RETRIES)
       => calls[attempt + Len(sleeps)] = "GET agent/"
    /\ SumSeq(sleeps) <= 55
    /\ (attempt = WAKE_RETRIES /\ ~browser_reachable)
       => (sleeps = <<10, 15, 15>> /\ SumSeq(sleeps) = 40)

C24_Witness ==
    /\ pc = "frontend"
    /\ attempt = WAKE_RETRIES
    /\ ~browser_reachable
    /\ sleeps = <<10, 15, 15>>
    /\ Count("GET agent/") = 4

\* C25: two runs against the same backend use different emails, so the
\* register call of the later run is never answered 409 because of a user
\* the earlier run created, also when both runs fall in one clock second.
C25_EmailUniquePerRun ==
    (prev # NoRun /\ Called("POST register"))
    => ~(RegisterRejected /\ Existing(result.email, users))

\* C26: the POST to /smoke-test is made at most once, and only after a
\* reachable probe, a successful auth flow, a present frontend directory and
\* a successful port publication; it carries the email and password of this
\* run's AuthOutcome and the URL the publisher returned.  The port CLI is
\* run at most once, and only after auth success with a frontend present.
C26_AgentCallGuarded ==
    /\ Count("POST smoke-test") <= 1
    /\ Count("gh ports") <= 1
    /\ (agent_request # NoneVal) <=> Called("POST smoke-test")
    /\ Called("POST smoke-test")
       => /\ browser_reachable /\ ~skip_browser
          /\ output.auth # NoneVal /\ output.auth.success
          /\ frontend_dir = "present"
          /\ ports # NoneVal /\ ports.success
          /\ Called("gh ports") /\ Pos("gh ports") < Pos("POST smoke-test")
          /\ Called("POST login") /\ Pos("POST login") < Pos("POST smoke-test")
          /\ agent_request.credentials = [email |-> output.auth.email,
                                          password |-> output.auth.password]
          /\ agent_request.url = ports.frontend_url
    /\ Called("gh ports")
       => /\ output.auth # NoneVal /\ output.auth.success
          /\ frontend_dir = "present"
          /\ Pos("isdir frontend") < Pos("gh ports")
          /\ Pos("POST login") < Pos("gh ports")

C26_Witness ==
    /\ pc = "done"
    /\ Count("POST smoke-test") = 1
    /\ Count("gh ports") = 1
    /\ agent_request.credentials.email = Email(2)
    /\ agent_request.url = LoginUrl("cs-2")
    /\ attempt = 3

----------------------------------------------------------------------------
(* Properties of test-browser-agent.py.                                    *)

WakeSucceeded == \E i \in 1..Len(calls) : calls[i] = "POST reset"

ResetSucceeded == \E i \in 1..Len(calls) : calls[i] = "POST smoke-test"

\* The fixture did not come up or did not reset, or the browser agent gave
\* no 2xx answer that could be read.
InfrastructureError ==
    \/ ~WakeSucceeded
    \/ ~ResetSucceeded
    \/ last_http.status \notin 200..299

\* C19: main() of test-browser-agent.py returns 0 exactly when the smoke
\* result's overall is "pass", 2 exactly when the fixture or the browser
\* agent was unreachable, and 1 whenever the test ran against a reachable
\* agent and did not pass; the agent is called only after wake and reset
\* both succeeded.
C19_HarnessExitCodes ==
    /\ Called("POST smoke-test")
       => /\ Count("POST reset") = 1
          /\ Count("GET health") >= 1
          /\ Pos("POST reset") < Pos("POST smoke-test")
    /\ pc = "h_done"
       => LET overall == Get(harness.result, "overall", "unknown") IN
          /\ returned \in {0, 1, 2}
          /\ (returned = 0) <=> (overall = "pass")
          /\ (returned = 2) <=> InfrastructureError
          /\ (returned = 1) <=> (~InfrastructureError /\ overall # "pass")
====
